---- MODULE Spec2Model ----
(***************************************************************************)
(* A model of pybase.py: the command dispatcher (App.run), the Oracle      *)
(* environment bootstrap (oracle_decorator), the session handling          *)
(* (oracle_connect / oracle_disconnect) and the row factory                *)
(* (oracle_row_factory).                                                   *)
(*                                                                         *)
(* Python strings are sequences of one-character strings, so that find()   *)
(* and lower() are computed and not assumed.  Python values that matter    *)
(* for truthiness (None, bool, str) are tagged records.                    *)
(***************************************************************************)
EXTENDS Naturals, Integers, Sequences, FiniteSets, TLC

\* ------------------------------------------------------------------ bounds
\* longest initial value of a search-path variable
MaxPathLen == 2
\* longest configured Oracle Instant Client path (the marker)
MaxMarkerLen == 2
\* most columns of a result set
MaxCols == 2

\* ----------------------------------------------------------------- strings
PathChars == {"a", "b"}

RECURSIVE StrsUpTo(_, _)
StrsUpTo(chars, n) ==
    IF n = 0 THEN {<<>>}
    ELSE LET shorter == StrsUpTo(chars, n - 1)
         IN  shorter \cup {Append(s, c) : s \in shorter, c \in chars}

\* str.find(sub): the lowest 0-based index where sub occurs in s, else -1
RECURSIVE FindFrom(_, _, _)
FindFrom(s, sub, i) ==
    IF i + Len(sub) > Len(s) THEN -1
    ELSE IF SubSeq(s, i + 1, i + Len(sub)) = sub THEN i
    ELSE FindFrom(s, sub, i + 1)

\* a find that sees a match at the very start only
FindPrefixOnly(s, sub) ==
    IF Len(sub) <= Len(s) /\ SubSeq(s, 1, Len(sub)) = sub THEN 0 ELSE -1

\* s.find(sub)
Find(s, sub) == FindFrom(s, sub, 0)

\* --------------------------------------------------------- Python values
PyNone == [t |-> "None", b |-> FALSE, s |-> <<>>]
PyRaise == [t |-> "raise", b |-> FALSE, s |-> <<>>]
PyBool(x) == [t |-> "bool", b |-> x, s |-> <<>>]
PyStr(x) == [t |-> "str", b |-> FALSE, s |-> x]

\* bool(v) of Python: None, False and '' are falsy
Truthy(v) ==
    CASE v.t = "bool" -> v.b
      [] v.t = "str" -> v.s # <<>>
      [] OTHER -> FALSE

\* `a or b`, `a and b`: the operand that decides, the right one evaluated lazily;
\* an operand that raised propagates
PyOr(a, b) == IF a.t = "raise" THEN a ELSE IF Truthy(a) THEN a ELSE b
PyAnd(a, b) == IF a.t = "raise" THEN a ELSE IF Truthy(a) THEN b ELSE a

\* v.find(sub) != -1 ; AttributeError when v is None
FindNotMinusOne(v, sub) ==
    IF v.t = "str" THEN PyBool(Find(v.s, sub) # -1) ELSE PyRaise

\* ------------------------------------------------------------ environment
EnvNames == {"PATH", "LD_LIBRARY_PATH", "HOME"}
Unset == [set |-> FALSE, val |-> <<>>]
SetTo(s) == [set |-> TRUE, val |-> s]

\* os.environ.get(name)
EnvGet(env, name) == IF env[name].set THEN PyStr(env[name].val) ELSE PyNone

\* the check of oracle_decorator.wrapper
ora_check(os, env, ora_client_path) ==
    PyOr(PyBool(ora_client_path = <<>>),
     PyOr(PyAnd(PyBool(os = "nt"),
           PyAnd(EnvGet(env, "PATH"),
                 FindNotMinusOne(EnvGet(env, "PATH"), ora_client_path))),
          PyAnd(PyBool(os = "posix"),
           PyAnd(EnvGet(env, "LD_LIBRARY_PATH"),
                 FindNotMinusOne(EnvGet(env, "LD_LIBRARY_PATH"), ora_client_path)))))

\* ------------------------------------------------------------------ state
VARIABLES
    os_name,        \* os.name
    environ,        \* os.environ
    environ0,       \* os.environ as the first process found it
    ic_path,        \* cfg['oracle']['ic_path']
    sys_argv,       \* sys.argv
    is_admin,       \* what check_admin finds
    commit_arg,     \* the commit argument oracle_disconnect is called with
    pc,             \* where the current process is
    args,           \* self.args
    log_files,      \* the log files the logger's FileHandlers hold open
    ora_con, ora_select_cur, ora_update_cur,   \* App fields; 0 is None
    cons,           \* driver: the connections made, each "open" or "closed"
    curs,           \* driver: the cursors made, each [con, open]
    calls,          \* the driver calls of this process, in order
    logged,         \* number of logger.exception calls
    mails,          \* subjects of the messages handed to SMTP
    exit_status,    \* -1 while running
    relaunches,     \* number of successful os.execv calls
    probe0,         \* the check's truth value in the first process
    last_exec,      \* what the last os.execv was called with, and from what state
    description,    \* cursor.description: the column names of the last execute
    column_names,   \* what the installed row factory captured
    factory_desc,   \* the description the row factory was made from
    row_args,       \* the tuple last handed to the row factory
    row             \* the row it made

vars == <<os_name, environ, environ0, ic_path, sys_argv, is_admin, commit_arg, pc, args,
          log_files, ora_con, ora_select_cur, ora_update_cur, cons, curs, calls,
          logged, mails, exit_status, relaunches, probe0, last_exec,
          description, column_names, factory_desc, row_args, row>>

inputVars == <<os_name, ic_path, is_admin, commit_arg, probe0, environ0>>
rowVars == <<description, column_names, factory_desc, row_args, row>>
sessionVars == <<ora_con, ora_select_cur, ora_update_cur, cons, curs>>

\* ----------------------------------------------------------------- inputs
Program == "pybase"
SysExecutable == "python"
Script == "pybase.py"
Commands == {"cmd1", "cmd2", "cmd3"}

\* the platform's search-path variable, as the relaunch branch picks it
SearchVar(os) == IF os = "nt" THEN "PATH" ELSE "LD_LIBRARY_PATH"

Paths == StrsUpTo(PathChars, MaxPathLen)
Markers == StrsUpTo(PathChars, MaxMarkerLen)
OptPaths == {Unset} \cup {SetTo(s) : s \in Paths}

\* command lines: program [-d] command ...; "bad" is a command the parser rejects
ArgvSet == {<<Script, c>> : c \in Commands \cup {"bad"}}
           \cup {<<Script, "-d", c>> : c \in Commands \cup {"bad"}}

\* __create_args: parser.parse_args()
ParseArgs(argv) ==
    [command |-> argv[Len(argv)],
     debug |-> \E i \in 1..Len(argv) : argv[i] = "-d"]

NoArgs == [command |-> "", debug |-> FALSE]
NoExec == [called |-> FALSE, ok |-> FALSE, path |-> "", argv |-> <<>>,
           old_argv |-> <<>>, old_env |-> [n \in EnvNames |-> Unset],
           new_env |-> [n \in EnvNames |-> Unset],
           held_logs |-> {}, held_cons |-> 0, held_curs |-> 0,
           made_cons |-> 0]

\* the oracle_disconnect() call of App.run passes no argument: commit=False
DispatcherCommit == FALSE

\* a fresh process image: nothing of the App exists yet
FreshProcess ==
    /\ pc = "main"
    /\ args = NoArgs
    /\ log_files = {}
    /\ ora_con = 0 /\ ora_select_cur = 0 /\ ora_update_cur = 0
    /\ cons = <<>> /\ curs = <<>> /\ calls = <<>>

NoRows ==
    /\ description = <<>> /\ column_names = <<>> /\ factory_desc = <<>>
    /\ row_args = <<>>
    /\ row = <<>>

InitInputs ==
    /\ os_name \in {"nt", "posix"}
    /\ ic_path \in Markers
    /\ sys_argv \in ArgvSet
    /\ is_admin \in BOOLEAN
    /\ \E p \in OptPaths, q \in {Unset} \cup {SetTo(t) : t \in StrsUpTo(PathChars, 1)} :
          environ = [n \in EnvNames |->
                       IF n = SearchVar(os_name) THEN p
                       ELSE IF n = "HOME" THEN SetTo(<<"h">>) ELSE q]
    /\ environ0 = environ
    /\ probe0 = Truthy(ora_check(os_name, environ, ic_path))
    /\ FreshProcess
    /\ logged = 0 /\ mails = <<>> /\ exit_status = -1
    /\ relaunches = 0 /\ last_exec = NoExec
    /\ NoRows

Init == InitInputs /\ commit_arg = DispatcherCommit

\* App.run as written, with the commit argument of oracle_disconnect left free
InitCommit == InitInputs /\ commit_arg \in BOOLEAN

\* ---------------------------------------------------------------- helpers
OpenCons(cs) == {i \in 1..Len(cs) : cs[i] = "open"}
OpenCurs(cu) == {i \in 1..Len(cu) : cu[i].open}
CursOn(cu, c) == {i \in 1..Len(cu) : cu[i].con = c}
Count(seq, x) == Cardinality({i \in 1..Len(seq) : seq[i] = x})

\* ------------------------------------------------------- main: app = App()
\* __init__: check_admin, then the argument parser, then the logger, whose
\* FileHandlers open their files at once and keep them open
OpenedLogs(a) == IF a.debug THEN {"info", "debug"} ELSE {"info"}

AppInit ==
    /\ pc = "main"
    /\ IF is_admin
       THEN \* RuntimeError out of check_admin, before any logger exists
            /\ pc' = "done" /\ exit_status' = 1
            /\ UNCHANGED <<args, log_files>>
       ELSE IF ParseArgs(sys_argv).command \notin Commands
       THEN \* argparse: invalid choice, SystemExit(2)
            /\ pc' = "done" /\ exit_status' = 2
            /\ UNCHANGED <<args, log_files>>
       ELSE /\ args' = ParseArgs(sys_argv)
            /\ log_files' = OpenedLogs(ParseArgs(sys_argv))
            /\ pc' = "run"
            /\ UNCHANGED exit_status
    /\ UNCHANGED <<inputVars, environ, sys_argv, sessionVars, calls, logged,
                   mails, relaunches, last_exec, rowVars>>

\* ---------------------------------------------------------------- App.run
\* the dispatch of run: cmd1 and cmd2 run to their end, cmd3 starts with
\* oracle_connect
Dispatch ==
    /\ pc = "run"
    /\ pc' = IF args.command = "cmd3" THEN "oracle_connect" ELSE "returned"
    /\ UNCHANGED <<inputVars, environ, sys_argv, args, log_files, sessionVars,
                   calls, logged, mails, exit_status, relaunches, last_exec,
                   rowVars>>

\* a faulty oracle_connect: one cursor serves as read and as write cursor
NewSessionSharedCursor(cs, cu) ==
    [cons |-> Append(cs, "open"),
     curs |-> Append(cu, [con |-> Len(cs) + 1, open |-> TRUE]),
     ora_con |-> Len(cs) + 1,
     ora_select_cur |-> Len(cu) + 1,
     ora_update_cur |-> Len(cu) + 1]

\* oracle_connect's body: one connection, two cursors on it, then the fields
NewSession(cs, cu) ==
    [cons |-> Append(cs, "open"),
     curs |-> cu \o <<[con |-> Len(cs) + 1, open |-> TRUE],
                      [con |-> Len(cs) + 1, open |-> TRUE]>>,
     ora_con |-> Len(cs) + 1,
     ora_select_cur |-> Len(cu) + 1,
     ora_update_cur |-> Len(cu) + 2]

\* the wrapper of oracle_decorator with the check truthy: import the driver,
\* then the decorated oracle_connect; either may raise
OracleConnect ==
    /\ pc = "oracle_connect"
    /\ Truthy(ora_check(os_name, environ, ic_path))
    /\ \E outcome \in {"ok", "import_raises", "connect_raises"} :
         IF outcome = "import_raises"
         THEN /\ calls' = Append(calls, "import")
              /\ pc' = "except"
              /\ UNCHANGED sessionVars
         ELSE IF outcome = "connect_raises"
         THEN /\ calls' = calls \o <<"import", "connect">>
              /\ pc' = "except"
              /\ UNCHANGED sessionVars
         ELSE LET n == NewSession(cons, curs)
              IN  /\ calls' = calls \o <<"import", "connect", "cursor", "cursor">>
                  /\ cons' = n.cons /\ curs' = n.curs
                  /\ ora_con' = n.ora_con
                  /\ ora_select_cur' = n.ora_select_cur
                  /\ ora_update_cur' = n.ora_update_cur
                  /\ pc' = "cmd3"
    /\ UNCHANGED <<inputVars, environ, sys_argv, args, log_files, logged, mails,
                   exit_status, relaunches, last_exec, rowVars>>

\* the separator the relaunch branch puts before the marker
Sep(os) == ";"

\* a faulty relaunch branch: LD_LIBRARY_PATH whatever the platform
RelaunchVarAlwaysLd(os) == "LD_LIBRARY_PATH"

\* the variable the relaunch branch changes
RelaunchVar(os) == IF os = "nt" THEN "PATH" ELSE "LD_LIBRARY_PATH"

\* os.environ[var] += sep + path, or = path when the variable is unset or empty
MutatedEnv(os, env, ora_client_path) ==
    LET var == RelaunchVar(os)
        old == EnvGet(env, var)
    IN  [env EXCEPT ![var] =
            IF Truthy(old) THEN SetTo(old.s \o <<Sep(os)>> \o ora_client_path)
            ELSE SetTo(ora_client_path)]

\* os.execv(path, args) of each branch
ExecPath(os, argv) == IF os = "nt" THEN SysExecutable ELSE argv[1]
ExecArgs(os, argv) == IF os = "nt" THEN <<SysExecutable>> \o argv ELSE argv

\* sys.argv of the new image: the interpreter named by execv drops its own
\* name; a script started directly has the interpreter put in front by the
\* kernel and dropped again
NewSysArgv(os, execargs) == IF os = "nt" THEN Tail(execargs) ELSE execargs

\* the wrapper of oracle_decorator with the check falsy: change the variable,
\* then replace the process image; os.execv returns only by raising OSError
Relaunch ==
    /\ pc = "oracle_connect"
    /\ ~Truthy(ora_check(os_name, environ, ic_path))
    /\ \E execv_ok \in BOOLEAN :
         /\ environ' = MutatedEnv(os_name, environ, ic_path)
         /\ last_exec' = [called |-> TRUE, ok |-> execv_ok,
                          path |-> ExecPath(os_name, sys_argv),
                          argv |-> ExecArgs(os_name, sys_argv),
                          old_argv |-> sys_argv,
                          old_env |-> environ,
                          new_env |-> environ',
                          held_logs |-> log_files,
                          held_cons |-> Cardinality(OpenCons(cons)),
                          held_curs |-> Cardinality(OpenCurs(curs)),
                          made_cons |-> Len(cons)]
         /\ IF execv_ok
            THEN /\ sys_argv' = NewSysArgv(os_name, ExecArgs(os_name, sys_argv))
                 /\ relaunches' = relaunches + 1
                 /\ pc' = "main"
                 /\ args' = NoArgs
                 /\ log_files' = {}
                 /\ ora_con' = 0 /\ ora_select_cur' = 0 /\ ora_update_cur' = 0
                 /\ cons' = <<>> /\ curs' = <<>> /\ calls' = <<>>
            ELSE /\ pc' = "except"
                 /\ UNCHANGED <<sys_argv, relaunches, args, log_files,
                                sessionVars, calls>>
    /\ UNCHANGED <<inputVars, logged, mails, exit_status, rowVars>>

\* cmd3: execute, install the row factory, fetchone, look at the row
Cmd3 ==
    /\ pc = "cmd3"
    /\ \E outcome \in {"ok", "execute_raises", "fetchone_raises", "no_row"} :
         /\ calls' = IF outcome = "execute_raises" THEN Append(calls, "execute")
                     ELSE calls \o <<"execute", "fetchone">>
         /\ pc' = IF outcome = "ok" THEN "oracle_disconnect" ELSE "except"
    /\ UNCHANGED <<inputVars, environ, sys_argv, args, log_files, sessionVars,
                   logged, mails, exit_status, relaunches, last_exec, rowVars>>

\* a faulty oracle_disconnect: the connection closed before its cursors
DisconnectStepsConFirst(commit) ==
    (IF commit THEN <<"commit">> ELSE <<>>)
        \o <<"close_con", "close_update", "close_select">>

\* oracle_disconnect(commit): the driver calls it makes, in order
DisconnectSteps(commit) ==
    (IF commit THEN <<"commit">> ELSE <<>>)
        \o <<"close_update", "close_select", "close_con">>

\* the steps made when commit() may raise: those up to the raising call
Performed(steps, commit_ok) ==
    LET at == {i \in 1..Len(steps) : steps[i] = "commit"}
    IN  IF ~commit_ok /\ at # {}
        THEN SubSeq(steps, 1, CHOOSE i \in at : \A j \in at : i <= j)
        ELSE steps

\* the driver state after the steps
RECURSIVE AfterSteps(_, _, _, _, _, _)
AfterSteps(steps, cs, cu, con, sel, upd) ==
    IF steps = <<>> THEN [cons |-> cs, curs |-> cu]
    ELSE LET st == Head(steps)
             cs2 == IF st = "close_con" THEN [cs EXCEPT ![con] = "closed"] ELSE cs
             cu2 == IF st = "close_update" THEN [cu EXCEPT ![upd].open = FALSE]
                    ELSE IF st = "close_select" THEN [cu EXCEPT ![sel].open = FALSE]
                    ELSE cu
         IN  AfterSteps(Tail(steps), cs2, cu2, con, sel, upd)

OracleDisconnect ==
    /\ pc = "oracle_disconnect"
    /\ \E commit_ok \in BOOLEAN :
         LET steps == DisconnectSteps(commit_arg)
             done == Performed(steps, commit_ok)
             after == AfterSteps(done, cons, curs, ora_con, ora_select_cur,
                                 ora_update_cur)
         IN  /\ calls' = calls \o done
             /\ cons' = after.cons /\ curs' = after.curs
             /\ pc' = IF done = steps THEN "returned" ELSE "except"
    /\ UNCHANGED <<inputVars, environ, sys_argv, args, log_files, ora_con,
                   ora_select_cur, ora_update_cur, logged, mails, exit_status,
                   relaunches, last_exec, rowVars>>

\* the except clause of run: log the trace, send the notification; an error
\* of send_mail leaves the handler and the program
Subject(program) == <<"EXCEPTION - ", program>>

Except ==
    /\ pc = "except"
    /\ logged' = logged + 1
    /\ \E smtp_ok \in BOOLEAN :
         IF smtp_ok
         THEN /\ mails' = Append(mails, Subject(Program))
              /\ pc' = "returned"
         ELSE /\ mails' = mails
              /\ pc' = "uncaught"
    /\ UNCHANGED <<inputVars, environ, sys_argv, args, log_files, sessionVars,
                   calls, exit_status, relaunches, last_exec, rowVars>>

\* the interpreter ends: status 0 after run returned, 1 after an uncaught error
ExitStatus(p) == IF p = "returned" THEN 0 ELSE 1

Exit ==
    /\ pc \in {"returned", "uncaught"}
    /\ exit_status' = ExitStatus(pc)
    /\ pc' = "done"
    /\ UNCHANGED <<inputVars, environ, sys_argv, args, log_files, sessionVars,
                   calls, logged, mails, relaunches, last_exec, rowVars>>

Next ==
    \/ AppInit
    \/ Dispatch
    \/ OracleConnect
    \/ Relaunch
    \/ Cmd3
    \/ OracleDisconnect
    \/ Except
    \/ Exit

Spec == Init /\ [][Next]_vars

SpecCommit == InitCommit /\ [][Next]_vars

\* ------------------------------------------------------ oracle_row_factory
\* str.lower() on the letters the column names are made of
LowerChar(c) ==
    CASE c = "A" -> "a"
      [] c = "B" -> "b"
      [] c = "C" -> "c"
      [] OTHER -> c

Lower(s) == [i \in 1..Len(s) |-> LowerChar(s[i])]

\* column_names = [d[0].lower() for d in cursor.description]
ColumnNames(desc) == [i \in 1..Len(desc) |-> Lower(desc[i])]

\* a faulty substitution: a if a else ''
NullToEmptyFalsy(a) == IF Truthy(a) THEN a ELSE PyStr(<<>>)

\* a if a is not None else ''
NullToEmpty(a) == IF a.t # "None" THEN a ELSE PyStr(<<>>)

Min(a, b) == IF a <= b THEN a ELSE b

\* dict(zip(names, values)): pairs up to the shorter length, a later pair
\* replacing an earlier one with the same key
DictZip(names, values) ==
    LET n == Min(Len(names), Len(values))
    IN  [k \in {names[i] : i \in 1..n} |->
            values[CHOOSE i \in 1..n :
                     /\ names[i] = k
                     /\ \A j \in 1..n : names[j] = k => j <= i]]

\* create_row(*args) of the factory that captured names
create_row(names, tuple) ==
    DictZip(names, [i \in 1..Len(tuple) |-> NullToEmpty(tuple[i])])

\* column names a result set can have: quoted identifiers keep their case
ColNames == {<<"A">>, <<"a">>, <<"C", "1">>}
RowValues == {PyNone, PyStr(<<"x">>), PyBool(FALSE)}

RECURSIVE UniqueSeqs(_, _)
UniqueSeqs(S, n) ==
    IF n = 0 THEN {<<>>}
    ELSE LET shorter == UniqueSeqs(S, n - 1)
             longer == UNION {{Append(q, x) : x \in S \ {q[i] : i \in 1..Len(q)}} :
                                q \in shorter}
         IN  shorter \cup longer

Descriptions == UniqueSeqs(ColNames, MaxCols) \ {<<>>}

\* a cursor on an open session, before its first execute
InitRows ==
    /\ os_name = "posix" /\ ic_path = <<>> /\ is_admin = FALSE
    /\ commit_arg = DispatcherCommit
    /\ sys_argv = <<Script, "cmd3">>
    /\ environ = [n \in EnvNames |-> Unset]
    /\ environ0 = environ
    /\ probe0 = TRUE
    /\ pc = "cmd3"
    /\ args = ParseArgs(sys_argv)
    /\ log_files = OpenedLogs(args)
    /\ cons = NewSession(<<>>, <<>>).cons /\ curs = NewSession(<<>>, <<>>).curs
    /\ ora_con = NewSession(<<>>, <<>>).ora_con
    /\ ora_select_cur = NewSession(<<>>, <<>>).ora_select_cur
    /\ ora_update_cur = NewSession(<<>>, <<>>).ora_update_cur
    /\ calls = <<"import", "connect", "cursor", "cursor">>
    /\ logged = 0 /\ mails = <<>> /\ exit_status = -1
    /\ relaunches = 0 /\ last_exec = NoExec
    /\ NoRows

progVars == <<os_name, environ, environ0, ic_path, sys_argv, is_admin, commit_arg, pc, args,
              log_files, ora_con, ora_select_cur, ora_update_cur, cons, curs,
              calls, logged, mails, exit_status, relaunches, probe0, last_exec>>

\* cursor.execute(sql): the result set's metadata replaces the old one
Execute ==
    /\ description' \in Descriptions
    /\ UNCHANGED <<column_names, factory_desc, row_args, row, progVars>>

\* cursor.rowfactory = App.oracle_row_factory(cursor), after an execute; the
\* new factory has made no row yet
InstallFactory ==
    /\ description # <<>>
    /\ column_names' = ColumnNames(description)
    /\ factory_desc' = description
    /\ row_args' = <<>> /\ row' = <<>>
    /\ UNCHANGED <<description, progVars>>

\* a fetch: the driver hands the tuple of the current result set to the factory
Fetch ==
    /\ column_names # <<>>
    /\ row_args' \in [1..Len(description) -> RowValues]
    /\ row' = create_row(column_names, row_args')
    /\ UNCHANGED <<description, column_names, factory_desc, progVars>>

NextRows == Execute \/ InstallFactory \/ Fetch

SpecRows == InitRows /\ [][NextRows]_vars

\* ================================================================= claims
Done == pc = "done"
SessionOpened == cons # <<>>
\* the driver calls oracle_disconnect makes, as this process made them
DiscCalls ==
    SelectSeq(calls, LAMBDA x : x \in {"commit", "close_update", "close_select",
                                       "close_con"})
CloseOrder == <<"close_update", "close_select", "close_con">>

\* C1: after a successful oracle_connect, every way the run ends has closed the
\* write cursor, then the read cursor, then the connection, without a commit.
C1_SessionReleasedOnEveryExit ==
    (Done /\ SessionOpened) =>
        /\ OpenCons(cons) = {}
        /\ OpenCurs(curs) = {}
        /\ DiscCalls = CloseOrder

\* C2: a run whose handler (or session open/close) raised logs the trace, sends
\* one message with subject "EXCEPTION - <program>" and ends with a non-zero
\* status; a run without an error ends with status 0 and sends nothing.  The
\* message is counted as the claim's sources mean it, best effort: none when
\* SMTP refuses it, never more than one.  A run that violates this violates
\* the reading "exactly one message" as well.
C2_FailureBoundaryOutcome ==
    /\ (Done /\ logged > 0) =>
          /\ mails \in {<<>>, <<Subject(Program)>>}
          /\ exit_status # 0
    /\ (Done /\ logged = 0 /\ args # NoArgs) =>
          /\ mails = <<>>
          /\ exit_status = 0

\* C3: a DB-dependent invocation relaunches at most once: with the marker
\* present or empty never; with it absent (and the new image started) exactly
\* once, after which the check is truthy and the driver is loaded.
C3_RelaunchConvergence ==
    /\ relaunches <= 1
    /\ probe0 => ~last_exec.called
    /\ relaunches = 1 => Truthy(ora_check(os_name, environ, ic_path))
    /\ (relaunches = 1 /\ pc \notin {"main", "run", "oracle_connect"}) =>
          (calls # <<>> /\ calls[1] = "import")
    /\ (Done /\ ~is_admin /\ ParseArgs(sys_argv).command = "cmd3" /\ ~probe0
             /\ ~(last_exec.called /\ ~last_exec.ok)) =>
          (relaunches = 1 /\ calls # <<>> /\ calls[1] = "import")

C3_Witness == relaunches = 1 /\ ora_con # 0 /\ ora_con \in OpenCons(cons)

\* C4: when the check is falsy and os.execv raises, the process ends with a
\* non-zero status (or the error escapes); it does not end with status 0.
C4_RelaunchFailureIsFatal ==
    (Done /\ last_exec.called /\ ~last_exec.ok) => exit_status # 0

\* C5: the check is truthy exactly when the marker is empty or occurs in the
\* platform's search-path variable (a missing variable counting as ""); it
\* raises nothing, and where no relaunch was made the environment is untouched.
Contains(p, m) ==
    \E i \in 0..Len(p) : i + Len(m) <= Len(p) /\ SubSeq(p, i + 1, i + Len(m)) = m
PlatformVar(os) == IF os = "nt" THEN "PATH" ELSE "LD_LIBRARY_PATH"

C5_ProbeCorrect ==
    LET chk == ora_check(os_name, environ, ic_path)
        p == environ[PlatformVar(os_name)].val
    IN  /\ chk.t # "raise"
        /\ Truthy(chk) <=> (ic_path = <<>> \/ Contains(p, ic_path))
        /\ ~last_exec.called => environ = environ0

C5_Witness ==
    /\ pc = "cmd3"
    /\ ic_path # <<>>
    /\ ~last_exec.called
    /\ Find(environ[PlatformVar(os_name)].val, ic_path) > 0

\* C6: on the relaunch path only the platform's search-path variable changes:
\* to the marker if it was absent or empty, else to old value + the platform's
\* path-list separator (';' on nt, ':' on posix) + marker; the other entries
\* and the argument vector reach the new process unchanged.
PathListSep(os) == IF os = "nt" THEN ";" ELSE ":"

C6_SearchPathMutation ==
    last_exec.called =>
        LET var == PlatformVar(os_name)
            old == last_exec.old_env[var]
        IN  /\ \A n \in EnvNames \ {var} : last_exec.new_env[n] = last_exec.old_env[n]
            /\ last_exec.new_env[var] =
                  IF old.set /\ old.val # <<>>
                  THEN SetTo(old.val \o <<PathListSep(os_name)>> \o ic_path)
                  ELSE SetTo(ic_path)
            /\ NewSysArgv(os_name, last_exec.argv) = last_exec.old_argv

C8_TeardownOrder ==
    /\ DiscCalls \in
          IF commit_arg
          THEN {<<>>, <<"commit">>, <<"commit">> \o CloseOrder}
          ELSE {<<>>, CloseOrder}
    /\ \A i \in OpenCurs(curs) : curs[i].con \in OpenCons(cons)
    /\ commit_arg = DispatcherCommit => Count(calls, "commit") = 0
    /\ DiscCalls # <<>> => (commit_arg <=> DiscCalls[1] = "commit")
    /\ Count(calls, "close_con") = 1 =>
          /\ OpenCons(cons) = {} /\ OpenCurs(curs) = {}
          /\ Count(calls, "commit") = (IF commit_arg THEN 1 ELSE 0)

C8_Witness ==
    /\ commit_arg
    /\ pc = "returned"
    /\ DiscCalls = <<"commit">> \o CloseOrder

\* C9 (as claimed): for unique column names c1..cn and a tuple of the same
\* length, the row's keys are the lower-cased names and its value at
\* lower(ci) is '' if vi is None and vi otherwise.
Fetched == row_args # <<>>

RowProjection ==
    /\ DOMAIN row = {Lower(factory_desc[i]) : i \in 1..Len(factory_desc)}
    /\ \A i \in 1..Len(factory_desc) :
          row[Lower(factory_desc[i])] =
              IF row_args[i] = PyNone THEN PyStr(<<>>) ELSE row_args[i]

C9_RowProjection ==
    (Fetched /\ Len(row_args) = Len(factory_desc)) => RowProjection

\* C9 (amended): the same for column names that stay distinct when
\* lower-cased; the names are those of the description the factory was made
\* from, also when the cursor's description has changed since.
LowerDistinct(desc) ==
    \A i, j \in 1..Len(desc) : Lower(desc[i]) = Lower(desc[j]) => i = j

C9_RowProjectionLowerDistinct ==
    /\ column_names = ColumnNames(factory_desc)
    /\ (Fetched /\ Len(row_args) = Len(factory_desc) /\ LowerDistinct(factory_desc))
          => RowProjection

C9_Witness ==
    /\ factory_desc = <<(<<"C", "1">>), (<<"A">>)>>
    /\ description # factory_desc
    /\ row_args = <<PyNone, PyStr(<<"x">>)>>
    /\ row = (<<"c", "1">> :> PyStr(<<>>)) @@ (<<"a">> :> PyStr(<<"x">>))

\* C10: when the process image is replaced the process holds no open log
\* file, no open connection and no open cursor.
C10_NoOpenResourcesAcrossRelaunch ==
    (last_exec.called /\ last_exec.ok) =>
        /\ last_exec.held_logs = {}
        /\ last_exec.held_cons = 0
        /\ last_exec.held_curs = 0

====
